---- MODULE Spec2Model ----
(***************************************************************************)
(* Model of src/backend.js: the Stripe webhook handler                      *)
(* (POST /v1/webhooks/stripe) and the idempotent create-payment-intent      *)
(* handler (POST /v1/payment_intents), over the five tables they touch.     *)
(* Every `await query(...)` is one statement of the store and one step of   *)
(* the handler: the handlers open no store transaction, so between two      *)
(* statements of one request any statement of another request may run.      *)
(***************************************************************************)
EXTENDS Integers, FiniteSets, Sequences, Bags, TLC

\* ---------------------------------------------------------------- bounds
\* Number of webhook deliveries (each served by its own handler instance).
NumWh == 2
\* Number of create-intent requests (each served by its own handler instance).
NumCi == 2

WhProcs == 1..NumWh
CiProcs == 1..NumCi

\* ---------------------------------------------------------------- inputs
\* Event ids the processor may deliver; the payload of an event id is fixed
\* by the processor (redelivery re-sends the same payload).
Events == {"evt_1", "evt_2", "evt_3"}

EventType(e) ==
  IF e = "evt_3" THEN "charge.refunded" ELSE "payment_intent.succeeded"

\* event.data.object of a payment_intent.succeeded event
EventObject(e) ==
  IF e = "evt_1"
    THEN [id |-> "pi_1", amount_received |-> 2500, currency |-> "usd"]
    ELSE [id |-> "pi_2", amount_received |-> 0, currency |-> "usd"]

\* Idempotency-Key header values; "" stands for an absent or empty header.
Keys == {"k1", "k2"}
KeyInputs == Keys \cup {""}

\* amount_cents of a request body: a number, whole (frac = FALSE) or not.
Amount(n) == [val |-> n, frac |-> FALSE]
AmountInputs == {Amount(0), Amount(2500), Amount(5000), [val |-> 2500, frac |-> TRUE]}

Currencies == {"usd"}

\* ---------------------------------------------------------------- values
\* A JSON object is a set of <<field, value>> pairs of strings.
Field(obj, name) == (CHOOSE pr \in obj : pr[1] = name)[2]

NoResponse == [status |-> 0, body |-> {}]

\* res.status(200).send({ ok: true, deduped: true })
AckDeduped == [status |-> 200, body |-> {<<"ok", "true">>, <<"deduped", "true">>}]
\* res.json({ ok: true })
AckOk == [status |-> 200, body |-> {<<"ok", "true">>}]
\* res.status(400).send(`Webhook Error: ${err.message}`)
WebhookError(msg) == [status |-> 400, body |-> {<<"text", msg>>}]

SignatureMsg == "signature verification failed"
TypeErrorMsg == "cannot read properties of undefined (reading 'id')"
DuplicateMsg == "duplicate key value violates unique constraint"
StoreMsg == "store unavailable"

\* crypto.createHash("sha256").update(req.body).digest("hex"): a digest of the
\* raw body, which the event id determines.
PayloadHash(e) == <<"sha256", e>>

\* crypto.randomUUID(): a value no other invocation returns; handler p's call
\* returns the p-th value.
RandomUUID(p) == p

EscrowId == 0
EscrowAccount == [id |-> EscrowId, name |-> "Platform Escrow", type |-> "platform_escrow"]

\* ---------------------------------------------------------------- state
VARIABLES
  accounts,         \* set of rows [id, name, type]
  transactions,     \* bag of rows [debit_account, credit_account, amount_cents, currency, external_ref, evt]
  payment_intents,  \* bag of rows [provider, provider_id, amount_cents, currency, status]
  idempotency_keys, \* bag of rows [key, endpoint, response_json]
  webhook_events,   \* bag of rows [event_id, type, payload_hash]
  remote_intents,   \* the processor's payment intents: set of [token, id, amount, currency, status]
  remote_calls,     \* the processor's log: number of create-intent calls per idempotency token
  wh,               \* webhook handler instances
  ci                \* create-intent handler instances

tables == <<accounts, transactions, payment_intents, idempotency_keys, webhook_events>>
remote == <<remote_intents, remote_calls>>
vars == <<accounts, transactions, payment_intents, idempotency_keys, webhook_events,
          remote_intents, remote_calls, wh, ci>>

WhIdle == [pc |-> "idle", event |-> "none", sigOK |-> TRUE, escrow |-> <<>>, resp |-> NoResponse]
\* log is what console.error(err) last wrote for the request.
CiIdle == [pc |-> "idle", key |-> "", amount_cents |-> Amount(0), currency |-> "usd",
           pi |-> "none", resp |-> NoResponse, log |-> ""]

Rows(table) == BagToSet(table)
Insert(table, row) == table (+) SetToBag({row})

\* SELECT 1 FROM webhook_events WHERE event_id=$1
EventRows(e) == {r \in Rows(webhook_events) : r.event_id = e}
\* rows of payment_intents with a given provider_id
IntentRows(id) == {r \in Rows(payment_intents) : r.provider_id = id}
\* SELECT id FROM accounts WHERE type='platform_escrow' LIMIT 1
EscrowRows ==
  LET ids == {a.id : a \in {r \in accounts : r.type = "platform_escrow"}}
  IN  IF ids = {} THEN <<>> ELSE <<CHOOSE i \in ids : TRUE>>

\* The store has the platform-escrow account seeded, or it has not.
Init ==
  /\ accounts \in {{}, {EscrowAccount}}
  /\ transactions = EmptyBag
  /\ payment_intents = EmptyBag
  /\ idempotency_keys = EmptyBag
  /\ webhook_events = EmptyBag
  /\ remote_intents = {}
  /\ remote_calls = [k \in Keys |-> 0]
  /\ wh = [p \in WhProcs |-> WhIdle]
  /\ ci = [p \in CiProcs |-> CiIdle]

\* ------------------------------------------------ POST /v1/webhooks/stripe
WhFinish(p, r) ==
  wh' = [wh EXCEPT ![p] = [pc |-> "done", event |-> wh[p].event, sigOK |-> wh[p].sigOK,
                           escrow |-> <<>>, resp |-> r]]
WhGoto(p, label) == wh' = [wh EXCEPT ![p].pc = label]

\* The processor (or anyone) posts a payload with a signature header.
WhDeliver(p, e, ok) ==
  /\ wh[p].pc = "idle"
  /\ wh' = [wh EXCEPT ![p] = [WhIdle EXCEPT !.pc = "verify", !.event = e, !.sigOK = ok]]
  /\ UNCHANGED <<tables, remote, ci>>

\* Variant of WhVerify with the outcome of the verification inverted.
WhVerify_Inverted(p) ==
  /\ wh[p].pc = "verify"
  /\ IF ~wh[p].sigOK THEN WhGoto(p, "check") ELSE WhFinish(p, WebhookError(SignatureMsg))
  /\ UNCHANGED <<tables, remote, ci>>

\* Variant of WhVerify that accepts any signature.
WhVerify_Unverified(p) ==
  /\ wh[p].pc = "verify"
  /\ WhGoto(p, "check")
  /\ UNCHANGED <<tables, remote, ci>>

\* stripe.webhooks.constructEvent throws on a bad signature; the catch answers 400.
WhVerify(p) ==
  /\ wh[p].pc = "verify"
  /\ IF wh[p].sigOK THEN WhGoto(p, "check") ELSE WhFinish(p, WebhookError(SignatureMsg))
  /\ UNCHANGED <<tables, remote, ci>>

\* Variant of WhCheck without the early return on an existing row.
WhCheck_NoDedup(p) ==
  /\ wh[p].pc = "check"
  /\ IF EventType(wh[p].event) = "payment_intent.succeeded"
       THEN WhGoto(p, "upsert_pi")
       ELSE WhGoto(p, "mark")
  /\ UNCHANGED <<tables, remote, ci>>

\* Variant of WhCheck that runs the payment handler for every event type.
WhCheck_NoDispatch(p) ==
  /\ wh[p].pc = "check"
  /\ IF EventRows(wh[p].event) # {}
       THEN WhFinish(p, AckDeduped)
       ELSE WhGoto(p, "upsert_pi")
  /\ UNCHANGED <<tables, remote, ci>>

\* de-duplicate: SELECT ... WHERE event_id; answer deduped when a row exists,
\* else dispatch on event.type.
WhCheck(p) ==
  /\ wh[p].pc = "check"
  /\ IF EventRows(wh[p].event) # {}
       THEN WhFinish(p, AckDeduped)
       ELSE IF EventType(wh[p].event) = "payment_intent.succeeded"
              THEN WhGoto(p, "upsert_pi")
              ELSE WhGoto(p, "mark")
  /\ UNCHANGED <<tables, remote, ci>>

\* INSERT INTO payment_intents ... ON CONFLICT (provider_id) DO UPDATE SET status='succeeded'
UpsertSucceeded(pi) ==
  IF IntentRows(pi.id) = {}
    THEN Insert(payment_intents,
                [provider |-> "stripe", provider_id |-> pi.id, amount_cents |-> pi.amount_received,
                 currency |-> pi.currency, status |-> "succeeded"])
    ELSE [r \in {IF q.provider_id = pi.id THEN [q EXCEPT !.status = "succeeded"] ELSE q
                   : q \in Rows(payment_intents)} |-> 1]

WhUpsertIntent(p) ==
  /\ wh[p].pc = "upsert_pi"
  /\ payment_intents' = UpsertSucceeded(EventObject(wh[p].event))
  /\ WhGoto(p, "sel_escrow")
  /\ UNCHANGED <<accounts, transactions, idempotency_keys, webhook_events, remote, ci>>

WhSelectEscrow(p) ==
  /\ wh[p].pc = "sel_escrow"
  /\ wh' = [wh EXCEPT ![p].pc = "ins_account", ![p].escrow = EscrowRows]
  /\ UNCHANGED <<tables, remote, ci>>

\* INSERT INTO accounts (id,name,type) VALUES ($1,$2,'customer') ON CONFLICT DO NOTHING
InsertCustomer(id) ==
  IF \E a \in accounts : a.id = id
    THEN accounts
    ELSE accounts \cup {[id |-> id, name |-> "Customer anon", type |-> "customer"]}

WhInsertAccount(p) ==
  /\ wh[p].pc = "ins_account"
  /\ accounts' = InsertCustomer(RandomUUID(p))
  /\ WhGoto(p, "ins_tx")
  /\ UNCHANGED <<transactions, payment_intents, idempotency_keys, webhook_events, remote, ci>>

\* Variant of LedgerRow with debit and credit exchanged.
LedgerRow_Swapped(p, e, escrowId) ==
  LET pi == EventObject(e)
  IN  [debit_account |-> escrowId, credit_account |-> RandomUUID(p),
       amount_cents |-> pi.amount_received, currency |-> pi.currency,
       external_ref |-> pi.id, evt |-> e]

\* The row the handler of event e inserts into transactions. evt is no column:
\* it records which event's handler posted the row.
LedgerRow(p, e, escrowId) ==
  LET pi == EventObject(e)
  IN  [debit_account |-> RandomUUID(p), credit_account |-> escrowId,
       amount_cents |-> pi.amount_received, currency |-> pi.currency,
       external_ref |-> pi.id, evt |-> e]

\* Variant of WhInsertTransaction that skips the posting when no escrow row
\* was found and carries on.
WhInsertTransaction_SkipNoEscrow(p) ==
  /\ wh[p].pc = "ins_tx"
  /\ IF wh[p].escrow = <<>>
       THEN UNCHANGED transactions
       ELSE transactions' = Insert(transactions, LedgerRow(p, wh[p].event, wh[p].escrow[1]))
  /\ WhGoto(p, "mark")
  /\ UNCHANGED <<accounts, payment_intents, idempotency_keys, webhook_events, remote, ci>>

\* escrow[0].id throws a TypeError when the SELECT returned no row, before the
\* INSERT is sent; otherwise INSERT INTO transactions.
WhInsertTransaction(p) ==
  /\ wh[p].pc = "ins_tx"
  /\ IF wh[p].escrow = <<>>
       THEN /\ WhFinish(p, WebhookError(TypeErrorMsg))
            /\ UNCHANGED transactions
       ELSE /\ transactions' = Insert(transactions, LedgerRow(p, wh[p].event, wh[p].escrow[1]))
            /\ WhGoto(p, "mark")
  /\ UNCHANGED <<accounts, payment_intents, idempotency_keys, webhook_events, remote, ci>>

\* webhook_events is unique on event_id.
WebhookEventsConflict(e) == EventRows(e) # {}

\* INSERT INTO webhook_events (event_id, type, payload_hash); a unique violation
\* throws and the catch answers 400; otherwise res.json({ ok: true }).
WhMarkProcessed(p) ==
  /\ wh[p].pc = "mark"
  /\ IF WebhookEventsConflict(wh[p].event)
       THEN /\ WhFinish(p, WebhookError(DuplicateMsg))
            /\ UNCHANGED webhook_events
       ELSE /\ webhook_events' = Insert(webhook_events,
                                        [event_id |-> wh[p].event, type |-> EventType(wh[p].event),
                                         payload_hash |-> PayloadHash(wh[p].event)])
            /\ WhFinish(p, AckOk)
  /\ UNCHANGED <<accounts, transactions, payment_intents, idempotency_keys, remote, ci>>

WhQueryLabels == {"check", "upsert_pi", "sel_escrow", "ins_account", "ins_tx", "mark"}

\* A store statement fails (query rejects): the catch answers 400.
WhStoreError(p) ==
  /\ wh[p].pc \in WhQueryLabels
  /\ WhFinish(p, WebhookError(StoreMsg))
  /\ UNCHANGED <<tables, remote, ci>>

\* The worker dies between two statements: no answer, nothing undone.
WhCrash(p) ==
  /\ wh[p].pc \in WhQueryLabels
  /\ wh' = [wh EXCEPT ![p] = [pc |-> "crashed", event |-> wh[p].event, sigOK |-> wh[p].sigOK,
                              escrow |-> <<>>, resp |-> NoResponse]]
  /\ UNCHANGED <<tables, remote, ci>>

WhNext ==
  \E p \in WhProcs :
    \/ \E e \in Events, ok \in BOOLEAN : WhDeliver(p, e, ok)
    \/ WhVerify(p)
    \/ WhCheck(p)
    \/ WhUpsertIntent(p)
    \/ WhSelectEscrow(p)
    \/ WhInsertAccount(p)
    \/ WhInsertTransaction(p)
    \/ WhMarkProcessed(p)
    \/ WhStoreError(p)
    \/ WhCrash(p)

SpecWh == Init /\ [][WhNext]_vars

\* ------------------------------------------------ POST /v1/payment_intents
Endpoint == "/v1/payment_intents"

CiFinish(p, r) ==
  ci' = [ci EXCEPT ![p].pc = "done", ![p].pi = "none", ![p].resp = r]
CiGoto(p, label) == ci' = [ci EXCEPT ![p].pc = label]

\* res.status(code).json({ error: msg })
ErrorJson(code, msg) == [status |-> code, body |-> {<<"error", msg>>}]
MissingKeyMsg == "Missing Idempotency-Key"
BadAmountMsg == "amount_cents must be a positive integer"
FailedMsg == "Failed to create payment intent"
ProcessorMsg == "processor error"

\* catch (err): console.error(err); res.status(500).json({ error: ... })
CiCatch(p, msg) ==
  ci' = [ci EXCEPT ![p].pc = "done", ![p].pi = "none",
                   ![p].resp = ErrorJson(500, FailedMsg), ![p].log = msg]

\* { id: pi.id, client_secret: pi.client_secret, status: pi.status }
ResponseOf(pi) ==
  {<<"id", pi.id>>, <<"client_secret", pi.client_secret>>, <<"status", pi.status>>}
\* res.json(body)
OkJson(body) == [status |-> 200, body |-> body]

\* A client posts a request body with an Idempotency-Key header.
CiRequest(p, k, a, c) ==
  /\ ci[p].pc = "idle"
  /\ ci' = [ci EXCEPT ![p] = [CiIdle EXCEPT !.pc = "validate", !.key = k,
                                             !.amount_cents = a, !.currency = c]]
  /\ UNCHANGED <<tables, remote, wh>>

\* Number.isInteger(amount_cents) && amount_cents > 0
IsPositiveInteger(a) == ~a.frac /\ a.val > 0

\* Variant of CiValidate without the amount test.
CiValidate_NoAmountCheck(p) ==
  /\ ci[p].pc = "validate"
  /\ IF ci[p].key = ""
       THEN CiFinish(p, ErrorJson(400, MissingKeyMsg))
       ELSE CiGoto(p, "lookup")
  /\ UNCHANGED <<tables, remote, wh>>

CiValidate(p) ==
  /\ ci[p].pc = "validate"
  /\ IF ci[p].key = ""
       THEN CiFinish(p, ErrorJson(400, MissingKeyMsg))
       ELSE IF ~IsPositiveInteger(ci[p].amount_cents)
              THEN CiFinish(p, ErrorJson(400, BadAmountMsg))
              ELSE CiGoto(p, "lookup")
  /\ UNCHANGED <<tables, remote, wh>>

\* SELECT response_json FROM idempotency_keys WHERE key=$1 AND endpoint=$2
KeyRows(k) == {r \in Rows(idempotency_keys) : r.key = k /\ r.endpoint = Endpoint}

\* Variant of CiLookup that never returns the stored response.
CiLookup_AlwaysMiss(p) ==
  /\ ci[p].pc = "lookup"
  /\ CiGoto(p, "remote")
  /\ UNCHANGED <<tables, remote, wh>>

\* Variant of CiLookup that rebuilds the status of the stored response from
\* the payment_intents mirror row.
CiLookup_Refreshed(p) ==
  /\ ci[p].pc = "lookup"
  /\ IF KeyRows(ci[p].key) # {}
       THEN \E r \in KeyRows(ci[p].key) :
              LET id == Field(r.response_json, "id")
                  status == IF IntentRows(id) = {}
                              THEN Field(r.response_json, "status")
                              ELSE (CHOOSE m \in IntentRows(id) : TRUE).status
              IN  CiFinish(p, OkJson({<<"id", id>>,
                                      <<"client_secret", Field(r.response_json, "client_secret")>>,
                                      <<"status", status>>}))
       ELSE CiGoto(p, "remote")
  /\ UNCHANGED <<tables, remote, wh>>

\* if (found.rowCount) return res.json(found.rows[0].response_json)
CiLookup(p) ==
  /\ ci[p].pc = "lookup"
  /\ IF KeyRows(ci[p].key) # {}
       THEN \E r \in KeyRows(ci[p].key) : CiFinish(p, OkJson(r.response_json))
       ELSE CiGoto(p, "remote")
  /\ UNCHANGED <<tables, remote, wh>>

\* The processor assigns one id per new payment intent.
RemoteId(k) == IF k = "k1" THEN "pi_1" ELSE "pi_2"

\* The processor deduplicates on the idempotency token: a token it has seen
\* names the resource it created for it.
RemoteResource(k, a, c) ==
  IF \E r \in remote_intents : r.token = k
    THEN CHOOSE r \in remote_intents : r.token = k
    ELSE [token |-> k, id |-> RemoteId(k), client_secret |-> "secret_of_" \o RemoteId(k),
          amount |-> a.val, currency |-> c, status |-> "requires_action"]

\* stripe.paymentIntents.create(..., { idempotencyKey: idem }) resolves.
CiRemoteCreate(p) ==
  /\ ci[p].pc = "remote"
  /\ LET pi == RemoteResource(ci[p].key, ci[p].amount_cents, ci[p].currency)
     IN  /\ remote_intents' = remote_intents \cup {pi}
         /\ remote_calls' = [remote_calls EXCEPT ![ci[p].key] = @ + 1]
         /\ ci' = [ci EXCEPT ![p].pc = "ins_intent", ![p].pi = pi.id]
  /\ UNCHANGED <<tables, wh>>

\* Variant of CiRemoteFail that has written the mirror row before the call failed.
CiRemoteFail_MirrorWritten(p, reached) ==
  /\ ci[p].pc = "remote"
  /\ IF reached
       THEN /\ remote_intents' = remote_intents \cup
                  {RemoteResource(ci[p].key, ci[p].amount_cents, ci[p].currency)}
            /\ remote_calls' = [remote_calls EXCEPT ![ci[p].key] = @ + 1]
       ELSE UNCHANGED remote
  /\ payment_intents' =
       IF IntentRows(RemoteId(ci[p].key)) # {}
         THEN payment_intents
         ELSE Insert(payment_intents,
                     [provider |-> "stripe", provider_id |-> RemoteId(ci[p].key),
                      amount_cents |-> ci[p].amount_cents.val, currency |-> ci[p].currency,
                      status |-> "requires_action"])
  /\ CiCatch(p, ProcessorMsg)
  /\ UNCHANGED <<accounts, transactions, idempotency_keys, webhook_events, wh>>

\* stripe.paymentIntents.create rejects (processor error or timeout); the call
\* reached the processor or it did not. The catch answers 500.
CiRemoteFail(p, reached) ==
  /\ ci[p].pc = "remote"
  /\ IF reached
       THEN /\ remote_intents' = remote_intents \cup
                  {RemoteResource(ci[p].key, ci[p].amount_cents, ci[p].currency)}
            /\ remote_calls' = [remote_calls EXCEPT ![ci[p].key] = @ + 1]
       ELSE UNCHANGED remote
  /\ CiCatch(p, ProcessorMsg)
  /\ UNCHANGED <<tables, wh>>

RemoteById(id) == CHOOSE r \in remote_intents : r.id = id

\* Variant of InsertIntent without the ON CONFLICT clause taking effect.
InsertIntent_NoConflict(id, amount, currency, status) ==
  Insert(payment_intents,
         [provider |-> "stripe", provider_id |-> id, amount_cents |-> amount,
          currency |-> currency, status |-> status])

\* Variant of InsertIntent with ON CONFLICT (provider_id) DO UPDATE SET status.
InsertIntent_Overwrite(id, amount, currency, status) ==
  IF IntentRows(id) # {}
    THEN [r \in {IF q.provider_id = id THEN [q EXCEPT !.status = status] ELSE q
                   : q \in Rows(payment_intents)} |-> 1]
    ELSE Insert(payment_intents,
                [provider |-> "stripe", provider_id |-> id, amount_cents |-> amount,
                 currency |-> currency, status |-> status])

\* INSERT INTO payment_intents ... ON CONFLICT (provider_id) DO NOTHING
InsertIntent(id, amount, currency, status) ==
  IF IntentRows(id) # {}
    THEN payment_intents
    ELSE Insert(payment_intents,
                [provider |-> "stripe", provider_id |-> id, amount_cents |-> amount,
                 currency |-> currency, status |-> status])

\* Variant of CiInsertIntent that goes on to the cache write without the
\* mirror insert having run.
CiInsertIntent_Deferred(p) ==
  /\ ci[p].pc = "ins_intent"
  /\ CiGoto(p, "store")
  /\ UNCHANGED <<tables, remote, wh>>

CiInsertIntent(p) ==
  /\ ci[p].pc = "ins_intent"
  /\ payment_intents' = InsertIntent(ci[p].pi, ci[p].amount_cents.val, ci[p].currency,
                                     RemoteById(ci[p].pi).status)
  /\ CiGoto(p, "store")
  /\ UNCHANGED <<accounts, transactions, idempotency_keys, webhook_events, remote, wh>>

\* idempotency_keys is unique on (key, endpoint).
IdempotencyKeysConflict(k) == KeyRows(k) # {}

\* INSERT INTO idempotency_keys (key, endpoint, response_json); a unique
\* violation throws and the catch answers 500; otherwise res.json(response).
CiStoreResponse(p) ==
  /\ ci[p].pc = "store"
  /\ LET response == ResponseOf(RemoteById(ci[p].pi))
     IN  IF IdempotencyKeysConflict(ci[p].key)
           THEN /\ CiCatch(p, DuplicateMsg)
                /\ UNCHANGED idempotency_keys
           ELSE /\ idempotency_keys' = Insert(idempotency_keys,
                      [key |-> ci[p].key, endpoint |-> Endpoint, response_json |-> response])
                /\ CiFinish(p, OkJson(response))
  /\ UNCHANGED <<accounts, transactions, payment_intents, webhook_events, remote, wh>>

CiQueryLabels == {"lookup", "ins_intent", "store"}

\* A store statement fails (query rejects): the catch answers 500.
CiStoreError(p) ==
  /\ ci[p].pc \in CiQueryLabels
  /\ CiCatch(p, StoreMsg)
  /\ UNCHANGED <<tables, remote, wh>>

\* The worker dies between two statements: no answer, nothing undone.
CiCrash(p) ==
  /\ ci[p].pc \in CiQueryLabels \cup {"remote"}
  /\ ci' = [ci EXCEPT ![p].pc = "crashed", ![p].pi = "none"]
  /\ UNCHANGED <<tables, remote, wh>>

CiNext ==
  \E p \in CiProcs :
    \/ \E k \in KeyInputs, a \in AmountInputs, c \in Currencies : CiRequest(p, k, a, c)
    \/ CiValidate(p)
    \/ CiLookup(p)
    \/ CiRemoteCreate(p)
    \/ \E reached \in BOOLEAN : CiRemoteFail(p, reached)
    \/ CiInsertIntent(p)
    \/ CiStoreResponse(p)
    \/ CiStoreError(p)
    \/ CiCrash(p)

SpecCi == Init /\ [][CiNext]_vars

Next == WhNext \/ CiNext

Spec == Init /\ [][Next]_vars

\* Both handlers side by side on one payment: one delivery of evt_1 (the success
\* of pi_1) with a good signature, requests under key k1 (whose intent is pi_1).
JointNext ==
  \/ \E p \in {1} :
       \/ WhDeliver(p, "evt_1", TRUE)
       \/ WhVerify(p)
       \/ WhCheck(p)
       \/ WhUpsertIntent(p)
       \/ WhSelectEscrow(p)
       \/ WhInsertAccount(p)
       \/ WhInsertTransaction(p)
       \/ WhMarkProcessed(p)
       \/ WhCrash(p)
  \/ \E p \in CiProcs :
       \/ \E a \in {Amount(2500), Amount(5000)} : CiRequest(p, "k1", a, "usd")
       \/ CiValidate(p)
       \/ CiLookup(p)
       \/ CiRemoteCreate(p)
       \/ \E reached \in BOOLEAN : CiRemoteFail(p, reached)
       \/ CiInsertIntent(p)
       \/ CiStoreResponse(p)
       \/ CiCrash(p)

SpecJoint == Init /\ [][JointNext]_vars

\* The status of one payment's mirror row: any number of deliveries of evt_1
\* with a good signature, next to one create-intent request under key k1.
StatusNext ==
  \/ \E p \in WhProcs :
       \/ WhDeliver(p, "evt_1", TRUE)
       \/ WhVerify(p)
       \/ WhCheck(p)
       \/ WhUpsertIntent(p)
       \/ WhSelectEscrow(p)
       \/ WhInsertAccount(p)
       \/ WhInsertTransaction(p)
       \/ WhMarkProcessed(p)
       \/ WhStoreError(p)
       \/ WhCrash(p)
  \/ \E p \in {1} :
       \/ \E a \in {Amount(2500), Amount(5000)} : CiRequest(p, "k1", a, "usd")
       \/ CiValidate(p)
       \/ CiLookup(p)
       \/ CiRemoteCreate(p)
       \/ \E reached \in BOOLEAN : CiRemoteFail(p, reached)
       \/ CiInsertIntent(p)
       \/ CiStoreResponse(p)
       \/ CiStoreError(p)
       \/ CiCrash(p)

SpecStatus == Init /\ [][StatusNext]_vars

\* The sender redelivers an event that was not answered with a 2xx: the
\* delivery is served again from the start.
WhRedeliver(p) ==
  /\ wh[p].pc = "done"
  /\ wh[p].resp.status # 200
  /\ wh' = [wh EXCEPT ![p] = [WhIdle EXCEPT !.pc = "verify", !.event = wh[p].event,
                                            !.sigOK = wh[p].sigOK]]
  /\ UNCHANGED <<tables, remote, ci>>

\* One step of delivery p once it is made: a statement of its handler, or its
\* redelivery.
WhLiveStep(p) ==
  \/ WhVerify(p)
  \/ WhCheck(p)
  \/ WhUpsertIntent(p)
  \/ WhSelectEscrow(p)
  \/ WhInsertAccount(p)
  \/ WhInsertTransaction(p)
  \/ WhMarkProcessed(p)
  \/ WhRedeliver(p)

LiveNext ==
  \E p \in WhProcs :
    \/ \E e \in Events : WhDeliver(p, e, TRUE)
    \/ WhLiveStep(p)

\* The platform-escrow account exists, signatures verify, no statement fails
\* and no worker dies; every delivery keeps being served.
LiveInit == Init /\ accounts = {EscrowAccount}

SpecLive == LiveInit /\ [][LiveNext]_vars /\ \A p \in WhProcs : WF_vars(WhLiveStep(p))

\* ================================================================ claims
Succeeded(e) == EventType(e) = "payment_intent.succeeded"

\* Number of rows of a bag that satisfy a test.
Count(table, Test(_)) ==
  BagCardinality([r \in {x \in Rows(table) : Test(x)} |-> CopiesIn(r, table)])

\* Transactions posted by handlers of event e; ProcessedEvent records of e.
TxCount(e) == LET T(r) == r.evt = e IN Count(transactions, T)
EventCount(e) == LET T(r) == r.event_id = e IN Count(webhook_events, T)
IntentCount(id) == LET T(r) == r.provider_id = id IN Count(payment_intents, T)

WhRunning(p) == wh[p].pc \notin {"idle", "done", "crashed"}
IngestInProgress(e) == \E p \in WhProcs : WhRunning(p) /\ wh[p].event = e
Acked(e) == \E p \in WhProcs : wh[p].event = e /\ wh[p].pc = "done" /\ wh[p].resp.status = 200

\* Handler p took a step in which its statement ran (no crash, no store failure).
WhStatementRan(p) ==
  /\ wh'[p] # wh[p]
  /\ wh'[p].pc # "crashed"
  /\ wh'[p].resp # WebhookError(StoreMsg)
CiStatementRan(p) ==
  /\ ci'[p] # ci[p]
  /\ ci'[p].pc # "crashed"
  /\ ci'[p].log # StoreMsg

\* C1: once the deliveries of a 'payment succeeded' event have all ended and
\* one of them was acknowledged, the store holds exactly one Transaction posted
\* for the event and exactly one ProcessedEvent record of it.
C1_ExactlyOnePosting ==
  \A e \in Events :
    (Succeeded(e) /\ Acked(e) /\ ~IngestInProgress(e))
      => (TxCount(e) = 1 /\ EventCount(e) = 1)

\* C2: whenever no ingest of a 'payment succeeded' event is in progress, the
\* event is recorded as processed exactly if a Transaction is posted for it.
C2_PostingAtomicWithMark ==
  \A e \in Events :
    (Succeeded(e) /\ ~IngestInProgress(e))
      => ((EventCount(e) >= 1) <=> (TxCount(e) >= 1))

\* C3: a delivery whose mark-processed statement finds the event id already
\* recorded (it lost the race on the uniqueness constraint) answers
\* Ack{deduped: true}.
C3_RaceLoserAcksDeduped ==
  [][\A p \in WhProcs :
       (wh[p].pc = "mark" /\ WebhookEventsConflict(wh[p].event) /\ WhStatementRan(p))
         => wh'[p].resp = AckDeduped]_vars

\* C4: a delivery whose dedup check finds the event id recorded answers
\* Ack{deduped: true} and changes none of the five tables.
C4_DedupHitIsNoOp ==
  [][\A p \in WhProcs :
       (wh[p].pc = "check" /\ EventRows(wh[p].event) # {} /\ WhStatementRan(p))
         => (wh'[p].pc = "done" /\ wh'[p].resp = AckDeduped /\ UNCHANGED tables)]_vars

C4_Witness ==
  \E p \in WhProcs : wh[p].pc = "done" /\ wh[p].resp = AckDeduped /\ EventCount(wh[p].event) = 1

\* C9: every posted Transaction debits and credits accounts that exist and has
\* an amount above 0.
C9_TransactionsWellFormed ==
  \A t \in Rows(transactions) :
    /\ \E a \in accounts : a.id = t.debit_account
    /\ \E a \in accounts : a.id = t.credit_account
    /\ t.amount_cents > 0

\* C10: a delivery whose signature does not verify is answered with the 400
\* error and changes none of the tables.
C10_BadSignatureRejected ==
  [][\A p \in WhProcs :
       (wh[p].pc = "verify" /\ ~wh[p].sigOK /\ wh'[p] # wh[p])
         => (wh'[p].pc = "done" /\ wh'[p].resp = WebhookError(SignatureMsg) /\ UNCHANGED tables)]_vars

C10_Witness ==
  \E p \in WhProcs :
    /\ wh[p].pc = "done" /\ ~wh[p].sigOK /\ wh[p].resp = WebhookError(SignatureMsg)
    /\ EventCount(wh[p].event) = 0 /\ TxCount(wh[p].event) = 0

\* The stored response of a key, and the amount the intent it names was created for.
StoredResponses(k) == {r.response_json : r \in KeyRows(k)}
CreatedAmount(response) == RemoteById(Field(response, "id")).amount

\* Request q was answered with a payment intent.
Succeeded200(q) == ci[q].pc = "done" /\ ci[q].resp.status = 200

\* C5: a create-intent that runs after another one with the same key was
\* answered gets the same response, makes no call to the processor and adds no
\* mirror row, the payment intent keeping a single row.
C5_RetryReturnsSameResponse ==
  [][\A p, q \in CiProcs :
       (/\ p # q /\ Succeeded200(q) /\ ci[p].key = ci[q].key
        /\ ci[p].pc = "lookup" /\ CiStatementRan(p))
         => (/\ ci'[p].pc = "done"
             /\ ci'[p].resp = ci[q].resp
             /\ remote_calls' = remote_calls
             /\ payment_intents' = payment_intents
             /\ IntentCount(Field(ci[q].resp.body, "id")) <= 1)]_vars

C5_Witness ==
  \E p, q \in CiProcs :
    /\ p # q /\ Succeeded200(p) /\ Succeeded200(q) /\ ci[p].key = ci[q].key
    /\ ci[p].resp = ci[q].resp
    /\ remote_calls[ci[p].key] = 1
    /\ IntentCount(Field(ci[p].resp.body, "id")) = 1

\* C6: a create-intent whose store statement finds its key already stored (it
\* lost the race on (key, endpoint)) answers with the stored response.
C6_RaceLoserReturnsWinner ==
  [][\A p \in CiProcs :
       (ci[p].pc = "store" /\ IdempotencyKeysConflict(ci[p].key) /\ CiStatementRan(p))
         => (ci'[p].pc = "done" /\ \E r \in StoredResponses(ci[p].key) : ci'[p].resp = OkJson(r))]_vars

\* C7: a stored idempotency row is never changed or removed, and a create-intent
\* whose lookup finds one answers with exactly its response.
C7_StoredResponseImmutable ==
  [][/\ \A r \in Rows(idempotency_keys) :
          CopiesIn(r, idempotency_keys') = CopiesIn(r, idempotency_keys)
     /\ \A p \in CiProcs :
          (ci[p].pc = "lookup" /\ KeyRows(ci[p].key) # {} /\ CiStatementRan(p))
            => (ci'[p].pc = "done"
                /\ \E r \in StoredResponses(ci[p].key) : ci'[p].resp = OkJson(r))]_vars

\* Two requests with one key were answered with the response created as
\* 'requires_action', one of them from the cache, while the mirror row that the
\* create-intent inserted has been moved to 'succeeded' by the webhook.
C7_Witness ==
  \E p, q \in CiProcs :
    /\ p # q /\ Succeeded200(p) /\ Succeeded200(q) /\ ci[p].key = ci[q].key
    /\ Field(ci[p].resp.body, "status") = "requires_action"
    /\ ci[p].resp.body \in StoredResponses(ci[p].key)
    /\ \E m \in IntentRows(Field(ci[p].resp.body, "id")) :
         /\ m.status = "succeeded"
         /\ m.amount_cents # EventObject("evt_1").amount_received

\* C8: a create-intent whose key is stored for a request with another amount
\* is answered with an error, not with the stored response.
C8_KeyReuseIsConflict ==
  [][\A p \in CiProcs :
       (/\ ci[p].pc = "lookup"
        /\ \E r \in StoredResponses(ci[p].key) : CreatedAmount(r) # ci[p].amount_cents.val
        /\ CiStatementRan(p))
         => (ci'[p].pc = "done" /\ ci'[p].resp.status >= 400)]_vars

\* Request q was answered 500 because the processor call failed.
ProcessorFailed(q) ==
  ci[q].pc = "done" /\ ci[q].resp = ErrorJson(500, FailedMsg) /\ ci[q].log = ProcessorMsg

\* C11: a create-intent whose processor call fails is answered with the 500
\* error and changes neither payment_intents nor idempotency_keys; a later
\* request with the same key that finds no stored row goes on to call the
\* processor.
C11_ProcessorFailureLeavesNoState ==
  [][\A p \in CiProcs :
       /\ (ci[p].pc = "remote" /\ ci'[p].log = ProcessorMsg)
            => (/\ ci'[p].pc = "done"
                /\ ci'[p].resp = ErrorJson(500, FailedMsg)
                /\ payment_intents' = payment_intents
                /\ idempotency_keys' = idempotency_keys)
       /\ (/\ ci[p].pc = "lookup" /\ KeyRows(ci[p].key) = {} /\ CiStatementRan(p)
           /\ \E q \in CiProcs : q # p /\ ProcessorFailed(q) /\ ci[q].key = ci[p].key)
            => ci'[p].pc = "remote"]_vars

\* Request q failed at the processor after its call had reached it (the
\* resource carries q's amount); request p with the same key then called the
\* processor again, with nothing stored locally for the key.
C11_Witness ==
  \E p, q \in CiProcs :
    /\ p # q /\ ProcessorFailed(q) /\ ci[q].key = ci[p].key
    /\ ci[p].pc = "ins_intent"
    /\ KeyRows(ci[p].key) = {} /\ IntentRows(ci[p].pi) = {}
    /\ remote_calls[ci[p].key] = 2
    /\ ci[q].amount_cents # ci[p].amount_cents
    /\ RemoteById(ci[p].pi).amount = ci[q].amount_cents.val

\* C12: a create-intent with no idempotency key, or with an amount that is
\* not a positive integer, is answered 400 at validation; it never reaches the
\* lookup, the processor is not called and no table changes.
BadRequest(r) == r.key = "" \/ r.amount_cents.frac \/ r.amount_cents.val <= 0

C12_InvalidRequestRejected ==
  [][\A p \in CiProcs :
       /\ (ci[p].pc = "validate" /\ BadRequest(ci[p]) /\ ci'[p] # ci[p])
            => (/\ ci'[p].pc = "done" /\ ci'[p].resp.status = 400
                /\ UNCHANGED <<tables, remote>>)
       /\ BadRequest(ci'[p]) => ci'[p].pc \in {"idle", "validate", "done"}]_vars

C12_Witness ==
  /\ \E p \in CiProcs :
       ci[p].pc = "done" /\ ci[p].key = "" /\ ci[p].resp = ErrorJson(400, MissingKeyMsg)
  /\ \E p \in CiProcs :
       /\ ci[p].pc = "done" /\ ci[p].key # "" /\ ci[p].amount_cents.val <= 0
       /\ ci[p].resp = ErrorJson(400, BadAmountMsg)
  /\ \A k \in Keys : remote_calls[k] = 0

\* The processor's payment intents created under idempotency token k.
RemoteOf(k) == {r \in remote_intents : r.token = k}

\* C13: for every client key there is at most one payment intent at the
\* processor, at most one mirror row for it, and all requests answered 200 for
\* the key carry the same processor-assigned id.
C13_OneIntentPerKey ==
  \A k \in Keys :
    /\ Cardinality(RemoteOf(k)) <= 1
    /\ \A r \in RemoteOf(k) : IntentCount(r.id) <= 1
    /\ \A p, q \in CiProcs :
         (Succeeded200(p) /\ Succeeded200(q) /\ ci[p].key = k /\ ci[q].key = k)
           => Field(ci[p].resp.body, "id") = Field(ci[q].resp.body, "id")

\* The processor was called twice for one key, by a request that crashed after
\* its call and by a request that was answered 200; one mirror row exists.
C13_Witness ==
  \E p, q \in CiProcs :
    /\ p # q /\ ci[p].key = ci[q].key
    /\ ci[q].pc = "crashed" /\ Succeeded200(p)
    /\ remote_calls[ci[p].key] = 2
    /\ Cardinality(RemoteOf(ci[p].key)) = 1
    /\ IntentCount(Field(ci[p].resp.body, "id")) = 1

\* C18: the response stored in every idempotency row names a payment intent
\* that has a mirror row.
C18_CachedIntentIsMirrored ==
  \A r \in Rows(idempotency_keys) : IntentRows(Field(r.response_json, "id")) # {}

\* A response is stored and mirrored while another request of the key crashed
\* after the processor call.
C18_Witness ==
  \E p, q \in CiProcs :
    /\ p # q /\ ci[p].key = ci[q].key
    /\ ci[q].pc = "crashed" /\ remote_calls[ci[p].key] = 2
    /\ \E r \in KeyRows(ci[p].key) : IntentCount(Field(r.response_json, "id")) = 1

\* body.deduped of an answer, and the acknowledgement of a first-seen event:
\* 200 with ok set and deduped not set.
Deduped(resp) == <<"deduped", "true">> \in resp.body
AckNotDeduped(resp) == resp.status = 200 /\ <<"ok", "true">> \in resp.body /\ ~Deduped(resp)

\* Transactions that debit the customer account of handler p.
DebitsOf(p) == {t \in Rows(transactions) : t.debit_account = RandomUUID(p)}

\* C14: a delivery of a 'payment succeeded' event that was acknowledged as
\* first-seen has left the mirror row of the payment 'succeeded', one customer
\* account of its own, exactly one Transaction debiting that account and
\* crediting a platform-escrow account with the event's amount, currency and
\* payment reference, and the event recorded as processed.
C14_FirstSeenIngestPosts ==
  \A p \in WhProcs :
    (wh[p].pc = "done" /\ AckNotDeduped(wh[p].resp) /\ Succeeded(wh[p].event))
      => LET pi == EventObject(wh[p].event)
             D(t) == t.debit_account = RandomUUID(p)
         IN  /\ IntentCount(pi.id) = 1
             /\ \A m \in IntentRows(pi.id) : m.status = "succeeded"
             /\ Cardinality({a \in accounts : a.id = RandomUUID(p) /\ a.type = "customer"}) = 1
             /\ Count(transactions, D) = 1
             /\ \A t \in DebitsOf(p) :
                  /\ \E a \in accounts : a.id = t.credit_account /\ a.type = "platform_escrow"
                  /\ t.amount_cents = pi.amount_received
                  /\ t.currency = pi.currency
                  /\ t.external_ref = pi.id
                  /\ t.evt = wh[p].event
             /\ EventCount(wh[p].event) = 1

C14_Witness ==
  \E p \in WhProcs :
    /\ wh[p].pc = "done" /\ wh[p].resp = AckOk /\ wh[p].event = "evt_1"
    /\ TxCount("evt_1") = 1 /\ DebitsOf(p) # {}
    /\ \E m \in IntentRows("pi_1") : m.status = "succeeded"

\* Every delivery that was made has ended with the 400 error.
AllIngestsFailed ==
  /\ \E p \in WhProcs : wh[p].pc = "done"
  /\ \A p \in WhProcs :
       wh[p].pc = "idle" \/ (wh[p].pc = "done" /\ wh[p].sigOK /\ wh[p].resp.status = 400)

\* C15: when every delivery made so far passed verification and failed, the
\* tables are as they were before the deliveries.
C15_FailedIngestLeavesNothing ==
  AllIngestsFailed =>
    /\ accounts \subseteq {EscrowAccount}
    /\ payment_intents = EmptyBag
    /\ transactions = EmptyBag
    /\ webhook_events = EmptyBag

\* C16: every 'payment succeeded' event recorded as processed has a
\* Transaction posted for it, and a delivery that ends with an error or a
\* crash inserts no ProcessedEvent record in that step.
C16_ProcessedImpliesPosted ==
  /\ [](\A e \in Events : (Succeeded(e) /\ EventCount(e) >= 1) => TxCount(e) >= 1)
  /\ [][\A p \in WhProcs :
          (wh'[p] # wh[p] /\ (wh'[p].pc = "crashed" \/ wh'[p].resp.status = 400))
            => webhook_events' = webhook_events]_vars

C16_Witness ==
  \E e \in Events :
    /\ Succeeded(e) /\ EventCount(e) = 1 /\ TxCount(e) >= 1
    /\ \E p \in WhProcs :
         wh[p].event = e /\ wh[p].pc = "done" /\ wh[p].sigOK /\ wh[p].resp.status = 400

\* C17: a first-seen event of another type than 'payment succeeded' goes
\* from the dedup check straight to the mark statement, which records it and
\* acknowledges it as first-seen; accounts, transactions and payment_intents
\* stay as they are in both steps.
C17_OtherEventOnlyRecorded ==
  [][\A p \in WhProcs :
       (~Succeeded(wh[p].event) /\ WhStatementRan(p))
         => /\ UNCHANGED <<accounts, transactions, payment_intents>>
            /\ (wh[p].pc = "check" /\ EventRows(wh[p].event) = {}) => wh'[p].pc = "mark"
            /\ (wh[p].pc = "mark" /\ ~WebhookEventsConflict(wh[p].event))
                 => (/\ wh'[p].pc = "done" /\ AckNotDeduped(wh'[p].resp)
                     /\ EventRows(wh[p].event)' # {})]_vars

C17_Witness ==
  \E p \in WhProcs :
    /\ wh[p].pc = "done" /\ wh[p].resp = AckOk /\ ~Succeeded(wh[p].event)
    /\ EventCount(wh[p].event) = 1
    /\ accounts \subseteq {EscrowAccount} /\ transactions = EmptyBag /\ payment_intents = EmptyBag

\* C19: a mirror row that reads 'succeeded' reads 'succeeded' after every
\* step, and no other row of its payment appears.
C19_SucceededIsKept ==
  [][\A r \in Rows(payment_intents) :
       r.status = "succeeded"
         => /\ IntentRows(r.provider_id)' # {}
            /\ \A m \in IntentRows(r.provider_id)' : m.status = "succeeded"]_vars

\* The webhook inserted the mirror row (it carries the event's amount, not the
\* request's); the create-intent's mirror insert ran afterwards with the
\* processor's earlier status, a second delivery has also upserted, and the row
\* still reads 'succeeded'.
C19_Witness ==
  /\ ci[1].pc \in {"store", "done"} /\ ci[1].key = "k1"
  /\ remote_calls["k1"] = 1 /\ ci[1].log = ""
  /\ ci[1].amount_cents.val # EventObject("evt_1").amount_received
  /\ \E r \in remote_intents : r.id = "pi_1" /\ r.status = "requires_action"
  /\ \E m \in IntentRows("pi_1") :
       m.status = "succeeded" /\ m.amount_cents = EventObject("evt_1").amount_received
  /\ IntentCount("pi_1") = 1
  /\ \E p, q \in WhProcs :
       /\ p # q /\ wh[p].event = "evt_1" /\ wh[q].event = "evt_1"
       /\ wh[p].pc \in {"sel_escrow", "ins_account", "ins_tx", "mark"}
       /\ wh[q].pc \in {"sel_escrow", "ins_account", "ins_tx", "mark"}

\* C20: every delivery that is made is eventually answered with a 200, its
\* event id then being recorded in webhook_events.
C20_EveryDeliveryAcked ==
  \A p \in WhProcs : \A e \in Events :
    (wh[p].pc # "idle" /\ wh[p].event = e)
      ~> (wh[p].pc = "done" /\ wh[p].resp.status = 200 /\ EventCount(e) >= 1)

\* Two deliveries of one event overlapped: both posted, one recorded the event
\* and the other, refused at the mark statement, was redelivered and answered
\* as deduped.
C20_Witness ==
  \E p, q \in WhProcs :
    /\ p # q /\ wh[p].event = wh[q].event
    /\ wh[p].pc = "done" /\ wh[p].resp = AckOk
    /\ wh[q].pc = "done" /\ wh[q].resp = AckDeduped
    /\ TxCount(wh[p].event) = 2 /\ EventCount(wh[p].event) = 1

====
